---------------------------- MODULE Spec2Model ----------------------------
(***************************************************************************)
(* A model of the vrm2sl inspection scripts (src/vrm/*.py): the GLB        *)
(* container readers, the accessor descriptor and its readers, the node    *)
(* world-matrix resolver, the inverse-bind-matrix report loops and the     *)
(* per-vertex joint decoding.                                              *)
(*                                                                         *)
(* Each component has its own specification over the shared variables; the *)
(* variables of the other components keep their idle values.               *)
(*                                                                         *)
(* Conventions.  A byte string is a sequence of naturals 0..255.  A Python *)
(* exception is an outcome string carrying the exception's Python name.    *)
(* A 32-bit float is represented by its bit pattern (the little-endian     *)
(* value of its four bytes), so that two reads agree exactly when they     *)
(* read the same bytes.  Matrices hold integers.                           *)
(***************************************************************************)
EXTENDS Integers, Sequences, FiniteSets, TLC

VARIABLES
    \* ---- container readers
    file,        \* the bytes of the file handed to a reader
    dpc,         \* "start" | "done"
    dentry,      \* the reader that ran
    dres,        \* what the reader returned or raised
    \* ---- compute_world_matrices
    nodes,       \* the node list (js["nodes"])
    parent_map,  \* child index -> parent index
    locals_,     \* the local matrix of every node
    worlds,      \* the world matrix of every node, None until resolved
    stack,       \* the node indices of the resolve() calls in progress
    gret,        \* the value the last resolve() call returned
    gexc,        \* the exception that ended the call, or "none"
    gi,          \* the index the loop over the nodes is at
    gpc,         \* "build" | "loop" | "enter" | "return" | "done" | "raised"
    \* ---- the accessor descriptor
    js,          \* the schema: js["accessors"] and js["bufferViews"]
    acc_idx,     \* the accessor index asked for
    ameta,       \* the descriptor returned, or the exception raised
    aentry,      \* the script that asked
    apc,         \* "start" | "done"
    \* ---- the readers of the binary payload
    bin_data,    \* the binary payload
    rmeta,       \* the descriptor read through (inverse bind matrices, POSITION, JOINTS_0)
    wmeta,       \* the descriptor of WEIGHTS_0
    rindex,      \* the element (joint slot, vertex) index read
    logical,     \* the joint slots the payload was written from, per vertex
    rres,        \* what the read returned or raised
    rentry,      \* the read that ran
    rpc,         \* "start" | "done"
    \* ---- the joint loops of the skin checks
    joints,      \* skin["joints"]: the node of each joint slot
    hbones,      \* humanBones: bone name -> node
    si,          \* the position of the loop, from 0
    srecords,    \* the diagnostic records printed so far
    sexc,        \* the exception a read raised, "none" if none
    sentry,      \* the script that runs
    spc,         \* "start" | "loop" | "done" | "raised"
    \* ---- the scan for the highest vertex
    max_y,       \* the highest Y seen so far
    min_y,       \* the lowest Y seen so far (inspect_detailed only)
    max_y_idx,   \* the vertex it was seen at
    vidx,        \* vi: the vertex the scan is at
    vexc,        \* the exception a read raised, "none" if none
    ventry,      \* the script that runs
    vpc,         \* "start" | "loop" | "done" | "raised"
    \* ---- the local matrix of one node
    lnode,       \* the node
    llocal,      \* the matrix returned for it
    lentry,      \* the script whose function ran
    lpc          \* "start" | "done"

dvars == <<file, dpc, dentry, dres>>
gvars == <<nodes, parent_map, locals_, worlds, stack, gret, gexc, gi, gpc>>
avars == <<js, acc_idx, ameta, aentry, apc>>
rvars == <<bin_data, rmeta, wmeta, rindex, logical, rres, rentry, rpc>>
svars == <<joints, hbones, si, srecords, sexc, sentry, spc>>
vvars == <<max_y, min_y, max_y_idx, vidx, vexc, ventry, vpc>>
lvars == <<lnode, llocal, lentry, lpc>>
vars == <<dvars, gvars, avars, rvars, svars, vvars, lvars>>

\* what the steps of one component leave alone: the other components
NotD == <<gvars, avars, rvars, svars, vvars, lvars>>
NotG == <<dvars, avars, rvars, svars, vvars, lvars>>
NotA == <<dvars, gvars, rvars, svars, vvars, lvars>>
NotR == <<dvars, gvars, avars, svars, vvars, lvars>>
NotS == <<dvars, gvars, avars, rvars, vvars, lvars>>
NotV == <<dvars, gvars, avars, rvars, svars, lvars>>
NotL == <<dvars, gvars, avars, rvars, svars, vvars>>

\* Python's None, and the empty dict
None == << >>
EmptyMap == [c \in {} |-> 0]

\* the values a component's variables keep while another component runs
DIdle ==
    /\ file = << >>
    /\ dpc = "idle"
    /\ dentry = "none"
    /\ dres = [outcome |-> "none", js |-> << >>, bin |-> << >>, tell |-> 0, read2 |-> FALSE]

GIdle ==
    /\ nodes = << >>
    /\ parent_map = EmptyMap
    /\ locals_ = << >>
    /\ worlds = << >>
    /\ stack = << >>
    /\ gret = None
    /\ gexc = "none"
    /\ gi = 0
    /\ gpc = "idle"

NoMeta == [base |-> 0, stride |-> 0, count |-> 0, comp_type |-> 0, acc_type |-> ""]

AIdle ==
    /\ js = [accessors |-> << >>, bufferViews |-> << >>]
    /\ acc_idx = 0
    /\ ameta = [outcome |-> "none", meta |-> NoMeta]
    /\ aentry = "none"
    /\ apc = "idle"

RIdle ==
    /\ bin_data = << >>
    /\ rmeta = NoMeta
    /\ wmeta = NoMeta
    /\ rindex = 0
    /\ logical = << >>
    /\ rres = [outcome |-> "none", value |-> << >>]
    /\ rentry = "none"
    /\ rpc = "idle"

SIdle ==
    /\ joints = << >>
    /\ hbones = EmptyMap
    /\ si = 0
    /\ srecords = << >>
    /\ sexc = "none"
    /\ sentry = "none"
    /\ spc = "idle"

VIdle ==
    /\ max_y = 0
    /\ min_y = 0
    /\ max_y_idx = 0
    /\ vidx = 0
    /\ vexc = "none"
    /\ ventry = "none"
    /\ vpc = "idle"

LIdle ==
    /\ lnode = None
    /\ llocal = None
    /\ lentry = "none"
    /\ lpc = "idle"

Min(a, b) == IF a < b THEN a ELSE b
Max(a, b) == IF a > b THEN a ELSE b

(***************************************************************************)
(* Byte strings.                                                           *)
(***************************************************************************)
\* struct.pack("<I", v): the writer's side of the "<I" fields the readers unpack
PackU32(v) ==
    << v % 256, (v \div 256) % 256, (v \div 65536) % 256, (v \div 16777216) % 256 >>

\* struct.unpack("<I", b)[0] of exactly four bytes
UnpackU32(b) == b[1] + 256 * b[2] + 65536 * b[3] + 16777216 * b[4]

\* f.read(n) at position pos: at most n bytes, fewer at the end of the file
FRead(f, pos, n) == SubSeq(f, pos + 1, Min(pos + n, Len(f)))
\* f.tell() after f.read(n) at position pos
FTell(f, pos, n) == Min(pos + n, Len(f))

\* json.loads of a chunk over the bytes the model writes: an object with no
\* members ("{" is 123, "}" is 125) surrounded by spaces (32); anything else
\* raises
JsonLoadsOk(b) ==
    \E i \in 1..Len(b) : \E j \in (i + 1)..Len(b) :
        /\ b[i] = 123
        /\ b[j] = 125
        /\ \A k \in 1..Len(b) : (k # i /\ k # j) => b[k] = 32

(***************************************************************************)
(* The container readers.  A result is what the call returned ("ok", with  *)
(* the JSON chunk and the binary payload) or the exception it raised;      *)
(* tell is f.tell() after the JSON chunk and read2 tells whether the       *)
(* reader went on to read a second chunk header.                           *)
(***************************************************************************)
Raised(exc, tell, read2) ==
    [outcome |-> exc, js |-> << >>, bin |-> << >>, tell |-> tell, read2 |-> read2]
Returned(json_bytes, bin_bytes, tell, read2) ==
    [outcome |-> "ok", js |-> json_bytes, bin |-> bin_bytes, tell |-> tell, read2 |-> read2]

\* the second chunk of read_glb, read at position pos: the payload, or short
\* when a header field has fewer than four bytes left (struct.error)
ReadBinChunk(f, pos) ==
    LET lenb == FRead(f, pos, 4)
        p1   == FTell(f, pos, 4)
        typb == FRead(f, p1, 4)
        p2   == FTell(f, p1, 4)
    IN  IF Len(lenb) # 4 \/ Len(typb) # 4
        THEN [short |-> TRUE, data |-> << >>]
        ELSE [short |-> FALSE, data |-> FRead(f, p2, UnpackU32(lenb))]

\* read_glb of compare_ibm.py and of inspect_detailed.py (the same code)
read_glb(f) ==
    LET hdr  == FRead(f, 4, 8)          \* after magic = f.read(4)
        lenb == FRead(f, 12, 4)
        typb == FRead(f, 16, 4)
    IN  IF Len(hdr) # 8 \/ Len(lenb) # 4 \/ Len(typb) # 4
        THEN Raised("struct.error", Len(f), FALSE)
        ELSE LET total_len  == UnpackU32(SubSeq(hdr, 5, 8))
                 json_len   == UnpackU32(lenb)
                 json_bytes == FRead(f, 20, json_len)
                 tell       == FTell(f, 20, json_len)
                 read2      == tell < total_len
                 chunk      == ReadBinChunk(f, tell)
             IN  IF read2 /\ chunk.short THEN Raised("struct.error", tell, TRUE)
                 ELSE IF ~JsonLoadsOk(json_bytes) THEN Raised("JSONDecodeError", tell, read2)
                 ELSE Returned(json_bytes, IF read2 THEN chunk.data ELSE << >>, tell, read2)

\* read_glb of compare_vrm_ibm.py: the header and the chunk types are skipped
\* unread, the JSON is parsed before the second chunk is read, and the second
\* chunk is read whatever the file position is
read_glb_vrm_ibm(f) ==
    LET lenb == FRead(f, 12, 4)
    IN  IF Len(lenb) # 4
        THEN Raised("struct.error", Len(f), FALSE)
        ELSE LET jlen       == UnpackU32(lenb)
                 json_bytes == FRead(f, 20, jlen)
                 tell       == FTell(f, 20, jlen)
                 blenb      == FRead(f, tell, 4)
                 p1         == FTell(f, FTell(f, tell, 4), 4)
             IN  IF ~JsonLoadsOk(json_bytes) THEN Raised("JSONDecodeError", tell, FALSE)
                 ELSE IF Len(blenb) # 4 THEN Raised("struct.error", tell, TRUE)
                 ELSE Returned(json_bytes, FRead(f, p1, UnpackU32(blenb)), tell, TRUE)

\* read_glb_json of inspect_output.py and of inspect_vrm.py: no binary payload
read_glb_json(f) ==
    LET verb == FRead(f, 4, 4)
        totb == FRead(f, 8, 4)
        lenb == FRead(f, 12, 4)
        typb == FRead(f, 16, 4)
    IN  IF Len(verb) # 4 \/ Len(totb) # 4 \/ Len(lenb) # 4 \/ Len(typb) # 4
        THEN Raised("struct.error", Len(f), FALSE)
        ELSE LET json_bytes == FRead(f, 20, UnpackU32(lenb))
                 tell       == FTell(f, 20, UnpackU32(lenb))
             IN  IF ~JsonLoadsOk(json_bytes) THEN Raised("JSONDecodeError", tell, FALSE)
                 ELSE Returned(json_bytes, << >>, tell, FALSE)

(***************************************************************************)
(* Matrices (rows and columns 1..4 for Python's 0..3) and node transforms. *)
(***************************************************************************)
\* mat4_multiply(a, b): c[i][j] += a[i][k] * b[k][j]
mat4_multiply(a, b) ==
    [i \in 1..4 |-> [j \in 1..4 |->
        a[i][1] * b[1][j] + a[i][2] * b[2][j] + a[i][3] * b[3][j] + a[i][4] * b[4][j]]]

\* [[vals[col * 4 + row] for col in range(4)] for row in range(4)]
ColumnMajorToRows(vals) ==
    [row \in 1..4 |-> [col \in 1..4 |-> vals[(col - 1) * 4 + (row - 1) + 1]]]

\* node.get(key, default): has is the set of the keys the node holds
NodeGet(node, key, default) == IF key \in node.has THEN node[key] ELSE default

\* node_to_local_matrix with the matrix field taken row by row
node_to_local_matrix_RowMajor(node) ==
    IF "matrix" \in node.has
    THEN [row \in 1..4 |-> [col \in 1..4 |-> node.matrix[(row - 1) * 4 + (col - 1) + 1]]]
    ELSE LET t == NodeGet(node, "translation", << 0, 0, 0 >>)
             r == NodeGet(node, "rotation", << 0, 0, 0, 1 >>)
             s == NodeGet(node, "scale", << 1, 1, 1 >>)
             x == r[1]
             y == r[2]
             z == r[3]
             w == r[4]
         IN  << << (1 - 2 * (y * y + z * z)) * s[1], (2 * (x * y - z * w)) * s[2],
                   (2 * (x * z + y * w)) * s[3], t[1] >>,
                << (2 * (x * y + z * w)) * s[1], (1 - 2 * (x * x + z * z)) * s[2],
                   (2 * (y * z - x * w)) * s[3], t[2] >>,
                << (2 * (x * z - y * w)) * s[1], (2 * (y * z + x * w)) * s[2],
                   (1 - 2 * (x * x + y * y)) * s[3], t[3] >>,
                << 0, 0, 0, 1 >> >>

\* node_to_local_matrix with row r of the rotation scaled by s[r]
node_to_local_matrix_RowScaled(node) ==
    IF "matrix" \in node.has
    THEN ColumnMajorToRows(node.matrix)
    ELSE LET t == NodeGet(node, "translation", << 0, 0, 0 >>)
             r == NodeGet(node, "rotation", << 0, 0, 0, 1 >>)
             s == NodeGet(node, "scale", << 1, 1, 1 >>)
             x == r[1]
             y == r[2]
             z == r[3]
             w == r[4]
         IN  << << (1 - 2 * (y * y + z * z)) * s[1], (2 * (x * y - z * w)) * s[1],
                   (2 * (x * z + y * w)) * s[1], t[1] >>,
                << (2 * (x * y + z * w)) * s[2], (1 - 2 * (x * x + z * z)) * s[2],
                   (2 * (y * z - x * w)) * s[2], t[2] >>,
                << (2 * (x * z - y * w)) * s[3], (2 * (y * z + x * w)) * s[3],
                   (1 - 2 * (x * x + y * y)) * s[3], t[3] >>,
                << 0, 0, 0, 1 >> >>

\* node_to_local_matrix(node)
node_to_local_matrix(node) ==
    IF "matrix" \in node.has
    THEN ColumnMajorToRows(node.matrix)
    ELSE LET t == NodeGet(node, "translation", << 0, 0, 0 >>)
             r == NodeGet(node, "rotation", << 0, 0, 0, 1 >>)
             s == NodeGet(node, "scale", << 1, 1, 1 >>)
             x == r[1]
             y == r[2]
             z == r[3]
             w == r[4]
         IN  << << (1 - 2 * (y * y + z * z)) * s[1], (2 * (x * y - z * w)) * s[2],
                   (2 * (x * z + y * w)) * s[3], t[1] >>,
                << (2 * (x * y + z * w)) * s[1], (1 - 2 * (x * x + z * z)) * s[2],
                   (2 * (y * z - x * w)) * s[3], t[2] >>,
                << (2 * (x * z - y * w)) * s[1], (2 * (y * z + x * w)) * s[2],
                   (1 - 2 * (x * x + y * y)) * s[3], t[3] >>,
                << 0, 0, 0, 1 >> >>

(***************************************************************************)
(* compute_world_matrices(nodes).  Node i of Python is nodes[i + 1]; the   *)
(* indices held in children, parent_map, stack and gi are Python's.        *)
(***************************************************************************)
\* the assignment of the children of node i that keeps a parent already set
RECURSIVE AssignChildren_FirstWins(_, _, _, _)
AssignChildren_FirstWins(pm, children, k, i) ==
    IF k > Len(children) THEN pm
    ELSE AssignChildren_FirstWins(pm @@ (children[k] :> i), children, k + 1, i)

\* for c in node.get("children", []): parent_map[c] = i
RECURSIVE AssignChildren(_, _, _, _)
AssignChildren(pm, children, k, i) ==
    IF k > Len(children) THEN pm
    ELSE AssignChildren((children[k] :> i) @@ pm, children, k + 1, i)

\* for i, node in enumerate(nodes): ... , from node i on
RECURSIVE BuildParentMap(_, _, _)
BuildParentMap(pm, ns, i) ==
    IF i >= Len(ns) THEN pm
    ELSE BuildParentMap(AssignChildren(pm, ns[i + 1].children, 1, i), ns, i + 1)

(***************************************************************************)
(* The node lists handed to compute_world_matrices: up to MaxNodes nodes,  *)
(* up to MaxEdges child entries in all, a child index being any node index *)
(* or the first index past the list, and transforms taken in turn from a   *)
(* pool that holds every form a node's transform takes.                    *)
(***************************************************************************)
MaxNodes == 3
MaxEdges == 3
RecursionLimit == 6    \* stands for the interpreter's recursion limit

Transform(has, matrix, translation, rotation, scale) ==
    [has |-> has, matrix |-> matrix, translation |-> translation,
     rotation |-> rotation, scale |-> scale]

TransformPool ==
    << Transform({}, << >>, << >>, << >>, << >>),
       Transform({"translation"}, << >>, << 1, 2, 3 >>, << >>, << >>),
       Transform({"rotation", "scale"}, << >>, << >>, << 1, 0, 0, 1 >>, << 2, 3, 5 >>),
       Transform({"matrix", "translation"},
                 << 1, 2, 0, 0,  0, 1, 3, 0,  4, 0, 1, 0,  5, 6, 7, 1 >>,
                 << 9, 9, 9 >>, << >>, << >>),
       Transform({"translation", "rotation"}, << >>, << 0, 1, 0 >>, << 0, 0, 1, 0 >>, << >>) >>

RECURSIVE SortedSeq(_)
SortedSeq(S) ==
    IF S = {} THEN << >>
    ELSE LET m == CHOOSE x \in S : \A y \in S : x <= y
         IN  << m >> \o SortedSeq(S \ {m})

NodeList(n, edges, shift) ==
    [i \in 1..n |->
        LET tr == TransformPool[((i - 1 + shift) % Len(TransformPool)) + 1]
        IN  [children |-> SortedSeq({ e[2] : e \in { d \in edges : d[1] = i - 1 } }),
             has |-> tr.has, matrix |-> tr.matrix, translation |-> tr.translation,
             rotation |-> tr.rotation, scale |-> tr.scale]]

\* the sets of at most k of the pairs
RECURSIVE EdgeSets(_, _)
EdgeSets(pairs, k) ==
    IF k = 0 THEN { {} }
    ELSE LET smaller == EdgeSets(pairs, k - 1)
         IN  smaller \cup { E \cup {e} : E \in smaller, e \in pairs }

GInit ==
    /\ \E n \in 0..MaxNodes :
         \E edges \in EdgeSets((0..(n - 1)) \X (0..n), MaxEdges) :
            \E shift \in 0..(Len(TransformPool) - 1) :
                nodes = NodeList(n, edges, shift)
    /\ parent_map = EmptyMap
    /\ locals_ = << >>
    /\ worlds = << >>
    /\ stack = << >>
    /\ gret = None
    /\ gexc = "none"
    /\ gi = 0
    /\ gpc = "build"

\* the parent map, the local matrices and the empty table of world matrices
BuildGraph ==
    /\ gpc = "build"
    /\ parent_map' = BuildParentMap(EmptyMap, nodes, 0)
    /\ locals_' = [i \in 1..Len(nodes) |-> node_to_local_matrix(nodes[i])]
    /\ worlds' = [i \in 1..Len(nodes) |-> None]
    /\ gi' = 0
    /\ gpc' = "loop"
    /\ UNCHANGED <<nodes, stack, gret, gexc>>
    /\ UNCHANGED NotG

\* for i in range(len(nodes)): resolve(i)
LoopCall ==
    /\ gpc = "loop"
    /\ gi < Len(nodes)
    /\ stack' = << gi >>
    /\ gpc' = "enter"
    /\ UNCHANGED <<nodes, parent_map, locals_, worlds, gret, gexc, gi>>
    /\ UNCHANGED NotG

\* return worlds
LoopDone ==
    /\ gpc = "loop"
    /\ gi >= Len(nodes)
    /\ gpc' = "done"
    /\ UNCHANGED <<nodes, parent_map, locals_, worlds, stack, gret, gexc, gi>>
    /\ UNCHANGED NotG

Top == stack[Len(stack)]
Pop == SubSeq(stack, 1, Len(stack) - 1)

\* the step for a cached node that computes the node anew as a root
ResolveCached_Recompute ==
    /\ gpc = "enter"
    /\ worlds[Top + 1] # None
    /\ worlds' = [worlds EXCEPT ![Top + 1] = locals_[Top + 1]]
    /\ gret' = locals_[Top + 1]
    /\ stack' = Pop
    /\ gpc' = "return"
    /\ UNCHANGED <<nodes, parent_map, locals_, gexc, gi>>
    /\ UNCHANGED NotG

\* if worlds[idx] is not None: return worlds[idx]
ResolveCached ==
    /\ gpc = "enter"
    /\ worlds[Top + 1] # None
    /\ gret' = worlds[Top + 1]
    /\ stack' = Pop
    /\ gpc' = "return"
    /\ UNCHANGED <<nodes, parent_map, locals_, worlds, gexc, gi>>
    /\ UNCHANGED NotG

\* if idx in parent_map: pw = resolve(parent_map[idx])
ResolveParent ==
    /\ gpc = "enter"
    /\ worlds[Top + 1] = None
    /\ Top \in DOMAIN parent_map
    /\ Len(stack) < RecursionLimit
    /\ stack' = Append(stack, parent_map[Top])
    /\ UNCHANGED <<nodes, parent_map, locals_, worlds, gret, gexc, gi, gpc>>
    /\ UNCHANGED NotG

\* the call above, with the interpreter's stack exhausted: RecursionError
ResolveOverflow ==
    /\ gpc = "enter"
    /\ worlds[Top + 1] = None
    /\ Top \in DOMAIN parent_map
    /\ Len(stack) >= RecursionLimit
    /\ gpc' = "raised"
    /\ gexc' = "RecursionError"
    /\ UNCHANGED <<nodes, parent_map, locals_, worlds, stack, gret, gi>>
    /\ UNCHANGED NotG

\* else: worlds[idx] = locals_[idx]; return worlds[idx]
ResolveRoot ==
    /\ gpc = "enter"
    /\ worlds[Top + 1] = None
    /\ Top \notin DOMAIN parent_map
    /\ worlds' = [worlds EXCEPT ![Top + 1] = locals_[Top + 1]]
    /\ gret' = locals_[Top + 1]
    /\ stack' = Pop
    /\ gpc' = "return"
    /\ UNCHANGED <<nodes, parent_map, locals_, gexc, gi>>
    /\ UNCHANGED NotG

\* the step of resolve() that composes the parent on the right
ReturnToCaller_ParentOnRight ==
    /\ gpc = "return"
    /\ stack # << >>
    /\ worlds' = [worlds EXCEPT ![Top + 1] = mat4_multiply(locals_[Top + 1], gret)]
    /\ gret' = mat4_multiply(locals_[Top + 1], gret)
    /\ stack' = Pop
    /\ UNCHANGED <<nodes, parent_map, locals_, gexc, gi, gpc>>
    /\ UNCHANGED NotG

\* worlds[idx] = mat4_multiply(pw, locals_[idx]); return worlds[idx]
ReturnToCaller ==
    /\ gpc = "return"
    /\ stack # << >>
    /\ worlds' = [worlds EXCEPT ![Top + 1] = mat4_multiply(gret, locals_[Top + 1])]
    /\ gret' = mat4_multiply(gret, locals_[Top + 1])
    /\ stack' = Pop
    /\ UNCHANGED <<nodes, parent_map, locals_, gexc, gi, gpc>>
    /\ UNCHANGED NotG

\* resolve(i) returned to the loop
ReturnToLoop ==
    /\ gpc = "return"
    /\ stack = << >>
    /\ gi' = gi + 1
    /\ gpc' = "loop"
    /\ UNCHANGED <<nodes, parent_map, locals_, worlds, stack, gret, gexc>>
    /\ UNCHANGED NotG

GNext ==
    \/ BuildGraph
    \/ LoopCall
    \/ LoopDone
    \/ ResolveCached
    \/ ResolveParent
    \/ ResolveOverflow
    \/ ResolveRoot
    \/ ReturnToCaller
    \/ ReturnToLoop

InitGraph == GInit /\ DIdle /\ AIdle /\ RIdle /\ SIdle /\ VIdle /\ LIdle
SpecGraph == InitGraph /\ [][GNext]_vars

\* the node k parent links above node i, or -1 when the chain ends before
RECURSIVE Follow(_, _, _)
Follow(pm, i, k) ==
    IF k = 0 THEN i
    ELSE IF i \in DOMAIN pm THEN Follow(pm, pm[i], k - 1)
    ELSE -1

NodeIndices == 0..(Len(nodes) - 1)
OnCycle(pm, i) == \E k \in 1..Len(nodes) : Follow(pm, i, k) = i
Acyclic(pm) == \A i \in NodeIndices : ~OnCycle(pm, i)

\* C1: on a node list whose parent map holds a cycle the resolution fails
\* with GraphCycleError; it never exhausts the call stack.
C1_CycleRaisesGraphCycleError ==
    /\ gpc = "raised" => gexc = "GraphCycleError"
    /\ gpc = "done" => Acyclic(parent_map)

\* the nodes that list c among their children
ListingNodes(c) ==
    { i \in NodeIndices : \E k \in 1..Len(nodes[i + 1].children) :
                              nodes[i + 1].children[k] = c }

\* C12: the parent map gives a parent to exactly the indices that some node
\* lists as a child, one parent each, and the parent of an index listed by
\* several nodes is the one of them with the highest index, the last to
\* assign it in the pass over the nodes.
C12_LastListingNodeWins ==
    gpc # "build" =>
        /\ DOMAIN parent_map = { c \in 0..Len(nodes) : ListingNodes(c) # {} }
        /\ \A c \in DOMAIN parent_map :
              /\ parent_map[c] \in ListingNodes(c)
              /\ \A i \in ListingNodes(c) : i <= parent_map[c]

\* the parent map was built from a node list in which two nodes list the
\* same child
C12_Witness ==
    /\ gpc = "loop"
    /\ \E c \in DOMAIN parent_map : Cardinality(ListingNodes(c)) >= 2

\* where node i stands: 0 not yet asked for, 1 asked for and being resolved
\* (a call of resolve for it is on the stack), 2 resolved and cached
ResolutionRank(w, st, i) ==
    IF w[i + 1] # None THEN 2
    ELSE IF \E k \in 1..Len(st) : st[k] = i THEN 1
    ELSE 0

\* C13: a world matrix, once cached, is never changed by a later step, a
\* request for a cached node returns the cached matrix and leaves the table
\* alone, and no node ever goes back from resolved to being resolved or from
\* either to not asked for.
C13_CacheOnlyMovesForward ==
    [][gpc # "build" =>
          /\ \A i \in NodeIndices :
                /\ worlds[i + 1] # None => worlds'[i + 1] = worlds[i + 1]
                /\ ResolutionRank(worlds', stack', i) >= ResolutionRank(worlds, stack, i)
          /\ (gpc = "enter" /\ worlds[Top + 1] # None) =>
                (gret' = worlds[Top + 1] /\ worlds' = worlds)]_vars

\* the loop asked for a node that was resolved before, as the parent of a
\* node of lower index, and got a matrix that is not the node's local one
C13_Witness ==
    /\ gpc = "return"
    /\ stack = << >>
    /\ gi \in NodeIndices
    /\ \E c \in NodeIndices :
          c < gi /\ c \in DOMAIN parent_map /\ parent_map[c] = gi /\ worlds[c + 1] # None
    /\ gret = worlds[gi + 1]
    /\ gret # locals_[gi + 1]

(***************************************************************************)
(* Deep node lists: forests of up to MaxChain nodes, among them the chain  *)
(* whose every node is listed by the next one, so that resolving node 0    *)
(* calls resolve once for every node of the chain before any returns.      *)
(***************************************************************************)
MaxChain == 7

\* the (parent, child) entries of a forest of n nodes
ForestEdges(n, shape) ==
    CASE shape = "leaf first" -> { <<i + 1, i>> : i \in 0..(n - 2) }
      [] shape = "root first" -> { <<i, i + 1>> : i \in 0..(n - 2) }
      [] shape = "star"       -> { <<0, i>> : i \in 1..(n - 1) }
      [] shape = "pairs"      -> { <<i + 1, i>> : i \in { k \in 0..(n - 2) : k % 2 = 0 } }

ChainInit ==
    /\ \E n \in 0..MaxChain :
         \E shape \in {"leaf first", "root first", "star", "pairs"} :
            \E shift \in 0..(Len(TransformPool) - 1) :
                nodes = NodeList(n, ForestEdges(n, shape), shift)
    /\ parent_map = EmptyMap
    /\ locals_ = << >>
    /\ worlds = << >>
    /\ stack = << >>
    /\ gret = None
    /\ gexc = "none"
    /\ gi = 0
    /\ gpc = "build"

InitChains == ChainInit /\ DIdle /\ AIdle /\ RIdle /\ SIdle /\ VIdle /\ LIdle
\* resolution is one call that runs to its end: every step that can be
\* taken is taken
SpecChains == InitChains /\ [][GNext]_vars /\ WF_vars(GNext)

\* the child entries of the node list are node indices and its parent map
\* has no cycle
WellFormedNodes ==
    /\ \A i \in NodeIndices : \A k \in 1..Len(nodes[i + 1].children) :
          nodes[i + 1].children[k] \in NodeIndices
    /\ Acyclic(BuildParentMap(EmptyMap, nodes, 0))

\* C14: on a node list whose child entries are node indices and whose
\* parent map is a forest, resolution comes to its end with a world matrix
\* for every node.
C14_ForestResolvesEveryNode ==
    WellFormedNodes ~> (gpc = "done" /\ \A i \in NodeIndices : worlds[i + 1] # None)

\* the parent links from node i end at a node that has no parent
ReachesRoot(pm, i) ==
    \E k \in 0..Len(nodes) :
        Follow(pm, i, k) \in NodeIndices /\ Follow(pm, i, k) \notin DOMAIN pm

\* C15: when the resolution has ended, by returning or by raising, every
\* node whose parent links end at a root has its world matrix, also on a
\* node list that holds a cycle elsewhere and whatever the index of the node.
C15_UnrelatedNodesResolve ==
    gpc \in {"done", "raised"} =>
        \A i \in NodeIndices : ReachesRoot(parent_map, i) => worlds[i + 1] # None

\* c is a child of b, b a child of a, and a has no parent
Chain(a, b, c) ==
    /\ c \in DOMAIN parent_map /\ parent_map[c] = b
    /\ b \in DOMAIN parent_map /\ parent_map[b] = a
    /\ a \notin DOMAIN parent_map
    /\ a \in NodeIndices /\ b \in NodeIndices /\ c \in NodeIndices

\* C5: a resolved node with no parent has its local matrix as world matrix, a
\* resolved node with a parent has world(parent) x local(node), the parent on
\* the left; on an acyclic node list every node ends resolved, and along a
\* chain a -> b -> c the world matrix of c is (local a x local b) x local c.
C5_WorldIsParentTimesLocal ==
    /\ gpc \in {"loop", "enter", "return", "done", "raised"} =>
         \A i \in NodeIndices :
            worlds[i + 1] # None =>
                worlds[i + 1] =
                    IF i \in DOMAIN parent_map
                    THEN mat4_multiply(worlds[parent_map[i] + 1], locals_[i + 1])
                    ELSE locals_[i + 1]
    /\ (gpc = "done" /\ Acyclic(parent_map)) =>
         /\ \A i \in NodeIndices : worlds[i + 1] # None
         /\ \A a \in NodeIndices, b \in NodeIndices, c \in NodeIndices :
               Chain(a, b, c) =>
                   worlds[c + 1] =
                       mat4_multiply(mat4_multiply(locals_[a + 1], locals_[b + 1]),
                                     locals_[c + 1])

\* a chain whose child is resolved before its ancestors and whose matrices do
\* not commute has been resolved
C5_Witness ==
    /\ gpc = "done"
    /\ \E a \in NodeIndices, b \in NodeIndices, c \in NodeIndices :
          /\ Chain(a, b, c)
          /\ c < b /\ b < a
          /\ worlds[c + 1] # mat4_multiply(locals_[c + 1], worlds[b + 1])
          /\ worlds[b + 1] # mat4_multiply(locals_[b + 1], worlds[a + 1])

(***************************************************************************)
(* The accessor descriptor.  A dict is a record with the set has of the    *)
(* keys it holds; a list is indexed as Python indexes it: index i of a     *)
(* list of n elements exists for -n <= i < n, a negative i counting from   *)
(* the end.                                                                *)
(***************************************************************************)
PyIndexOk(list, i) == -Len(list) <= i /\ i < Len(list)
PyIndex(list, i) == IF i >= 0 THEN list[i + 1] ELSE list[Len(list) + i + 1]

\* {"SCALAR": 1, "VEC2": 2, "VEC3": 3, "VEC4": 4, "MAT4": 16}
ElemCountTable ==
    [SCALAR |-> 1, VEC2 |-> 2, VEC3 |-> 3, VEC4 |-> 4, MAT4 |-> 16]
\* {5120: 1, 5121: 1, 5122: 2, 5123: 2, 5125: 4, 5126: 4}
CompSizeTable ==
    (5120 :> 1) @@ (5121 :> 1) @@ (5122 :> 2) @@ (5123 :> 2) @@ (5125 :> 4) @@ (5126 :> 4)

DictGet(d, key, default) == IF key \in d.has THEN d[key] ELSE default

Described(meta) == [outcome |-> "ok", meta |-> meta]
DescribeRaised(exc) == [outcome |-> exc, meta |-> NoMeta]

\* read_accessor_meta with bv.get("byteStride", ...) left out
read_accessor_meta_NoExplicitStride(schema, idx) ==
    IF ~PyIndexOk(schema.accessors, idx) THEN DescribeRaised("IndexError")
    ELSE LET acc == PyIndex(schema.accessors, idx)
         IN  IF "bufferView" \notin acc.has THEN DescribeRaised("KeyError")
             ELSE IF ~PyIndexOk(schema.bufferViews, acc.bufferView)
             THEN DescribeRaised("IndexError")
             ELSE IF acc.type \notin DOMAIN ElemCountTable THEN DescribeRaised("KeyError")
             ELSE IF acc.componentType \notin DOMAIN CompSizeTable
             THEN DescribeRaised("KeyError")
             ELSE LET bv == PyIndex(schema.bufferViews, acc.bufferView)
                  IN  Described([base |-> DictGet(bv, "byteOffset", 0)
                                            + DictGet(acc, "byteOffset", 0),
                                 stride |-> ElemCountTable[acc.type]
                                              * CompSizeTable[acc.componentType],
                                 count |-> acc.count,
                                 comp_type |-> acc.componentType,
                                 acc_type |-> acc.type])

\* read_accessor_meta(js, acc_idx) of compare_ibm.py and inspect_detailed.py
read_accessor_meta(schema, idx) ==
    IF ~PyIndexOk(schema.accessors, idx) THEN DescribeRaised("IndexError")
    ELSE LET acc == PyIndex(schema.accessors, idx)
         IN  IF "bufferView" \notin acc.has THEN DescribeRaised("KeyError")
             ELSE IF ~PyIndexOk(schema.bufferViews, acc.bufferView)
             THEN DescribeRaised("IndexError")
             ELSE IF acc.type \notin DOMAIN ElemCountTable THEN DescribeRaised("KeyError")
             ELSE IF acc.componentType \notin DOMAIN CompSizeTable
             THEN DescribeRaised("KeyError")
             ELSE LET bv == PyIndex(schema.bufferViews, acc.bufferView)
                      default_stride == ElemCountTable[acc.type]
                                            * CompSizeTable[acc.componentType]
                  IN  Described([base |-> DictGet(bv, "byteOffset", 0)
                                            + DictGet(acc, "byteOffset", 0),
                                 stride |-> DictGet(bv, "byteStride", default_stride),
                                 count |-> acc.count,
                                 comp_type |-> acc.componentType,
                                 acc_type |-> acc.type])

\* compare_vrm_ibm.main: the base and the stride of the inverse bind matrices,
\* taken from the accessor and its buffer view in place
ibm_layout_vrm_ibm(schema, idx) ==
    IF ~PyIndexOk(schema.accessors, idx) THEN DescribeRaised("IndexError")
    ELSE LET ibm_acc == PyIndex(schema.accessors, idx)
         IN  IF "bufferView" \notin ibm_acc.has THEN DescribeRaised("KeyError")
             ELSE IF ~PyIndexOk(schema.bufferViews, ibm_acc.bufferView)
             THEN DescribeRaised("IndexError")
             ELSE LET bv == PyIndex(schema.bufferViews, ibm_acc.bufferView)
                  IN  Described([base |-> DictGet(bv, "byteOffset", 0)
                                            + DictGet(ibm_acc, "byteOffset", 0),
                                 stride |-> DictGet(bv, "byteStride", 64),
                                 count |-> ibm_acc.count,
                                 comp_type |-> ibm_acc.componentType,
                                 acc_type |-> ibm_acc.type])

(***************************************************************************)
(* The schemas handed to the descriptor: up to MaxRecords accessors and    *)
(* buffer views, the last of each being the one under test and the others  *)
(* telling themselves apart by their offsets; every component type and     *)
(* element shape of the tables and one unknown code of each; indices from  *)
(* one below the valid ones to one above.                                  *)
(***************************************************************************)
MaxRecords == 2

Accessor(has, bufferView, componentType, type, byteOffset) ==
    [has |-> has, bufferView |-> bufferView, componentType |-> componentType,
     type |-> type, count |-> 2, byteOffset |-> byteOffset]
BufferView(has, byteOffset, byteStride) ==
    [has |-> has, byteOffset |-> byteOffset, byteStride |-> byteStride]

ComponentTypes == {5120, 5121, 5122, 5123, 5125, 5126, 5124}
ElementShapes == {"SCALAR", "VEC2", "VEC3", "VEC4", "MAT4", "MAT3"}
ExplicitStrides == {16, 68}

FillerAccessor(k) ==
    Accessor({"bufferView", "componentType", "type", "count", "byteOffset"},
             0, 5121, "SCALAR", 1000 * k)
FillerView(k) == BufferView({"byteOffset"}, 100 * k, 0)

Schema(nA, acc, nB, bv) ==
    [accessors |-> [k \in 1..nA |-> IF k = nA THEN acc ELSE FillerAccessor(k)],
     bufferViews |-> [k \in 1..nB |-> IF k = nB THEN bv ELSE FillerView(k)]]

AInit ==
    /\ \E nA \in 1..MaxRecords, nB \in 1..MaxRecords :
         \E bvi \in (-nB - 1)..nB, ct \in ComponentTypes, shape \in ElementShapes,
            offs \in BOOLEAN, stride \in {0} \cup ExplicitStrides :
            /\ js = Schema(nA,
                      Accessor({"bufferView", "componentType", "type", "count"}
                                  \cup (IF offs THEN {"byteOffset"} ELSE {}),
                               bvi, ct, shape, IF offs THEN 4 ELSE 0),
                      nB,
                      BufferView((IF offs THEN {"byteOffset"} ELSE {})
                                    \cup (IF stride # 0 THEN {"byteStride"} ELSE {}),
                                 IF offs THEN 8 ELSE 0, stride))
            /\ acc_idx \in (-nA - 1)..nA
    /\ ameta = [outcome |-> "none", meta |-> NoMeta]
    /\ aentry = "none"
    /\ apc = "start"

\* compare_ibm.main: read_accessor_meta(vrm_js, vrm_skin1["inverseBindMatrices"])
DescribeCompareIbm ==
    /\ apc = "start"
    /\ ameta' = read_accessor_meta(js, acc_idx)
    /\ aentry' = "compare_ibm"
    /\ apc' = "done"
    /\ UNCHANGED <<js, acc_idx>>
    /\ UNCHANGED NotA

\* inspect_detailed.main: read_accessor_meta(js, ibm_acc_idx)
DescribeInspectDetailed ==
    /\ apc = "start"
    /\ ameta' = read_accessor_meta(js, acc_idx)
    /\ aentry' = "inspect_detailed"
    /\ apc' = "done"
    /\ UNCHANGED <<js, acc_idx>>
    /\ UNCHANGED NotA

\* compare_vrm_ibm.main: ibm_acc, bv, base and stride
DescribeCompareVrmIbm ==
    /\ apc = "start"
    /\ ameta' = ibm_layout_vrm_ibm(js, acc_idx)
    /\ aentry' = "compare_vrm_ibm"
    /\ apc' = "done"
    /\ UNCHANGED <<js, acc_idx>>
    /\ UNCHANGED NotA

ANext ==
    \/ DescribeCompareIbm
    \/ DescribeInspectDetailed
    \/ DescribeCompareVrmIbm

InitAccessor == AInit /\ DIdle /\ GIdle /\ RIdle /\ SIdle /\ VIdle /\ LIdle
SpecAccessor == InitAccessor /\ [][ANext]_vars

\* the accessor and the buffer view a successful description looked up
TheAccessor == PyIndex(js.accessors, acc_idx)
TheView == PyIndex(js.bufferViews, TheAccessor.bufferView)

\* the tightly packed stride, from the component count of the element shape
\* and the byte size of the component type
NaturalStride(shape, ct) ==
    (CASE shape = "SCALAR" -> 1 [] shape = "VEC2" -> 2 [] shape = "VEC3" -> 3
       [] shape = "VEC4" -> 4 [] shape = "MAT4" -> 16)
    * (CASE ct \in {5120, 5121} -> 1 [] ct \in {5122, 5123} -> 2 [] ct \in {5125, 5126} -> 4)
KnownTypes(acc) ==
    /\ acc.type \in {"SCALAR", "VEC2", "VEC3", "VEC4", "MAT4"}
    /\ acc.componentType \in {5120, 5121, 5122, 5123, 5125, 5126}

\* an index of an existing record of the list
IndexExists(list, i) == 0 <= i /\ i < Len(list)

UsesReadAccessorMeta == aentry \in {"compare_ibm", "inspect_detailed"}

\* C6 as stated: the stride is the buffer view's byteStride when one is
\* declared and otherwise componentCount * byteSize, in every script that
\* reads the inverse bind matrices.
C6_StrideEverywhere ==
    (apc = "done" /\ ameta.outcome = "ok" /\ KnownTypes(TheAccessor)) =>
        ameta.meta.stride =
            IF "byteStride" \in TheView.has THEN TheView.byteStride
            ELSE NaturalStride(TheAccessor.type, TheAccessor.componentType)

\* C6 as amended: read_accessor_meta (compare_ibm, inspect_detailed) returns
\* the declared byteStride, else componentCount * byteSize; compare_vrm_ibm
\* uses the declared byteStride, else the constant 64, which is the natural
\* stride exactly of a MAT4 of 4-byte components.
C6_StrideOfDescribe ==
    (apc = "done" /\ ameta.outcome = "ok") =>
        /\ "byteStride" \in TheView.has => ameta.meta.stride = TheView.byteStride
        /\ ("byteStride" \notin TheView.has /\ UsesReadAccessorMeta) =>
              /\ KnownTypes(TheAccessor)
              /\ ameta.meta.stride =
                    NaturalStride(TheAccessor.type, TheAccessor.componentType)
        /\ ("byteStride" \notin TheView.has /\ aentry = "compare_vrm_ibm") =>
              /\ ameta.meta.stride = 64
              /\ (TheAccessor.type = "MAT4" /\ TheAccessor.componentType \in {5125, 5126})
                    => ameta.meta.stride =
                          NaturalStride(TheAccessor.type, TheAccessor.componentType)

\* read_accessor_meta has described a VEC3 of floats with no declared stride
C6_Witness ==
    /\ apc = "done"
    /\ ameta.outcome = "ok"
    /\ aentry = "inspect_detailed"
    /\ "byteStride" \notin TheView.has
    /\ TheAccessor.type = "VEC3"
    /\ TheAccessor.componentType = 5126
    /\ ameta.meta.stride = 12

\* C10: describe fails with OutOfRange (IndexError) whenever the accessor
\* index or the accessor's buffer view index is no index of an existing
\* record, negative indices included, and with UnknownType (KeyError)
\* whenever the component type or the element shape is not a known one; no
\* descriptor is returned in either case.
C10_DescribeRejects ==
    (apc = "done" /\ UsesReadAccessorMeta) =>
        /\ ~IndexExists(js.accessors, acc_idx) => ameta.outcome = "IndexError"
        /\ (IndexExists(js.accessors, acc_idx)
              /\ ~IndexExists(js.bufferViews, TheAccessor.bufferView))
                 => ameta.outcome = "IndexError"
        /\ (IndexExists(js.accessors, acc_idx)
              /\ IndexExists(js.bufferViews, TheAccessor.bufferView)
              /\ ~KnownTypes(TheAccessor))
                 => ameta.outcome = "KeyError"

(***************************************************************************)
(* The readers of the binary payload.  Offsets are Python's, from 0.       *)
(***************************************************************************)
\* b[lo:hi]: a negative bound counts from the end, and both are clamped
PySliceBound(n, i) == IF i < 0 THEN Max(i + n, 0) ELSE Min(i, n)
PySlice(b, lo, hi) ==
    SubSeq(b, PySliceBound(Len(b), lo) + 1, PySliceBound(Len(b), hi))

\* struct.unpack("<f", b)[0] of exactly four bytes: the float, held as the
\* four bytes of its encoding (least significant first)
UnpackF32(b) == b
\* struct.unpack("<H", b)[0] of exactly two bytes
UnpackU16(b) == b[1] + 256 * b[2]
\* the big-endian reading of two bytes
UnpackU16_BigEndian(b) == 256 * b[1] + b[2]

ReadOk(value) == [outcome |-> "ok", value |-> value]
ReadRaised(exc) == [outcome |-> exc, value |-> << >>]

\* read_floats(bin_data, offset, count), from float i on, vals read so far
RECURSIVE read_floats_from(_, _, _, _, _)
read_floats_from(b, offset, count, i, vals) ==
    IF i >= count THEN ReadOk(vals)
    ELSE LET four == PySlice(b, offset + i * 4, offset + i * 4 + 4)
         IN  IF Len(four) # 4 THEN ReadRaised("struct.error")
             ELSE read_floats_from(b, offset, count, i + 1, Append(vals, UnpackF32(four)))

read_floats(b, offset, count) == read_floats_from(b, offset, count, 0, << >>)

\* read_mat4(bin_data, meta, index): sixteen floats, column-major to rows
read_mat4(b, meta, index) ==
    LET got == read_floats(b, meta.base + index * meta.stride, 16)
    IN  IF got.outcome # "ok" THEN got ELSE ReadOk(ColumnMajorToRows(got.value))

\* read_mat4(bd, base, stride, idx) of compare_vrm_ibm.py
read_mat4_vrm_ibm(bd, base, stride, idx) ==
    LET got == read_floats(bd, base + idx * stride, 16)
    IN  IF got.outcome # "ok" THEN got ELSE ReadOk(ColumnMajorToRows(got.value))

\* read_vec3(bin_data, meta, index)
read_vec3(b, meta, index) == read_floats(b, meta.base + index * meta.stride, 3)

\* JointLane with the two bytes of a short read high byte first
JointLane_BigEndian(b, jnt_meta, vi, lane) ==
    LET off == jnt_meta.base + vi * jnt_meta.stride
    IN  IF jnt_meta.comp_type = 5121
        THEN IF PyIndexOk(b, off + lane) THEN ReadOk(PyIndex(b, off + lane))
             ELSE ReadRaised("IndexError")
        ELSE LET two == PySlice(b, off + lane * 2, off + lane * 2 + 2)
             IN  IF Len(two) # 2 THEN ReadRaised("struct.error")
                 ELSE ReadOk(UnpackU16_BigEndian(two))

\* one lane of JOINTS_0: a byte of the payload when the component type is
\* 5121, else two bytes read as a little-endian unsigned short
JointLane(b, jnt_meta, vi, lane) ==
    LET off == jnt_meta.base + vi * jnt_meta.stride
    IN  IF jnt_meta.comp_type = 5121
        THEN IF PyIndexOk(b, off + lane) THEN ReadOk(PyIndex(b, off + lane))
             ELSE ReadRaised("IndexError")
        ELSE LET two == PySlice(b, off + lane * 2, off + lane * 2 + 2)
             IN  IF Len(two) # 2 THEN ReadRaised("struct.error")
                 ELSE ReadOk(UnpackU16(two))

\* one lane of WEIGHTS_0
WeightLane(b, wgt_meta, vi, lane) ==
    LET w_off == wgt_meta.base + vi * wgt_meta.stride + lane * 4
        four  == PySlice(b, w_off, w_off + 4)
    IN  IF Len(four) # 4 THEN ReadRaised("struct.error") ELSE ReadOk(UnpackF32(four))

\* for lane in range(4): ... jnts.append(j); wgts.append(w)
RECURSIVE decode_lanes(_, _, _, _, _, _, _)
decode_lanes(b, jnt_meta, wgt_meta, vi, lane, jnts, wgts) ==
    IF lane >= 4 THEN ReadOk([jnts |-> jnts, wgts |-> wgts])
    ELSE LET j == JointLane(b, jnt_meta, vi, lane)
             w == WeightLane(b, wgt_meta, vi, lane)
         IN  IF j.outcome # "ok" THEN j
             ELSE IF w.outcome # "ok" THEN w
             ELSE decode_lanes(b, jnt_meta, wgt_meta, vi, lane + 1,
                               Append(jnts, j.value), Append(wgts, w.value))

\* the joints and the weights of vertex vi (compare_ibm.main and
\* inspect_detailed.main, the same loop)
decode_influence(b, jnt_meta, wgt_meta, vi) ==
    decode_lanes(b, jnt_meta, wgt_meta, vi, 0, << >>, << >>)

\* the bytes a read of size bytes at offset off asks for lie inside the payload
InsidePayload(b, off, size) == 0 <= off /\ off + size <= Len(b)

\* ReadMat4 .. DecodeInfluence: the reads the scripts make
ReadMat4 ==
    /\ rpc = "start"
    /\ rres' = read_mat4(bin_data, rmeta, rindex)
    /\ rentry' = "read_mat4"
    /\ rpc' = "done"
    /\ UNCHANGED <<bin_data, rmeta, wmeta, rindex, logical>>
    /\ UNCHANGED NotR

ReadMat4VrmIbm ==
    /\ rpc = "start"
    /\ rres' = read_mat4_vrm_ibm(bin_data, rmeta.base, rmeta.stride, rindex)
    /\ rentry' = "read_mat4_vrm_ibm"
    /\ rpc' = "done"
    /\ UNCHANGED <<bin_data, rmeta, wmeta, rindex, logical>>
    /\ UNCHANGED NotR

ReadVec3 ==
    /\ rpc = "start"
    /\ rres' = read_vec3(bin_data, rmeta, rindex)
    /\ rentry' = "read_vec3"
    /\ rpc' = "done"
    /\ UNCHANGED <<bin_data, rmeta, wmeta, rindex, logical>>
    /\ UNCHANGED NotR

DecodeInfluence ==
    /\ rpc = "start"
    /\ rres' = decode_influence(bin_data, rmeta, wmeta, rindex)
    /\ rentry' = "decode_influence"
    /\ rpc' = "done"
    /\ UNCHANGED <<bin_data, rmeta, wmeta, rindex, logical>>
    /\ UNCHANGED NotR

(***************************************************************************)
(* The payloads and descriptors the reads are checked on: a payload of one *)
(* of three lengths whose bytes tell their positions apart, a descriptor   *)
(* obtained from read_accessor_meta for a buffer view at any of a few      *)
(* offsets, in front of, inside and past the payload.                      *)
(***************************************************************************)
MaxReadBin == 80
MaxIndex == 1

PatternBytes(n) == [i \in 1..n |-> (7 * i + 3) % 256]

MetaOf(base, stride, ct, shape) ==
    read_accessor_meta(
        Schema(1, Accessor({"bufferView", "componentType", "type", "count"},
                           0, ct, shape, 0),
               1, BufferView({"byteOffset"} \cup (IF stride # 0 THEN {"byteStride"} ELSE {}),
                             base, stride)),
        0).meta

ReadBases == {-MaxReadBin, -66, -14, -5, 0, 4, 16, MaxReadBin - 12}

ReadInit ==
    /\ \E n \in {0, 16, MaxReadBin} : bin_data = PatternBytes(n)
    /\ \E base \in ReadBases, stride \in {0, 64},
          kind \in {<<5126, "MAT4">>, <<5126, "VEC3">>, <<5121, "VEC4">>, <<5123, "VEC4">>} :
          rmeta = MetaOf(base, stride, kind[1], kind[2])
    /\ \E base \in {0, 16} : wmeta = MetaOf(base, 0, 5126, "VEC4")
    /\ rindex \in 0..MaxIndex
    /\ logical = << >>
    /\ rres = [outcome |-> "none", value |-> << >>]
    /\ rentry = "none"
    /\ rpc = "start"

RNext ==
    \/ ReadMat4
    \/ ReadMat4VrmIbm
    \/ ReadVec3
    \/ DecodeInfluence

InitRead == ReadInit /\ DIdle /\ GIdle /\ AIdle /\ SIdle /\ VIdle /\ LIdle
SpecRead == InitRead /\ [][RNext]_vars

\* the offset and the size in bytes of the read that ran
ReadOffset == rmeta.base + rindex * rmeta.stride
ReadSize ==
    CASE rentry \in {"read_mat4", "read_mat4_vrm_ibm"} -> 64
      [] rentry = "read_vec3" -> 12
      [] rentry = "decode_influence" -> IF rmeta.comp_type = 5121 THEN 4 ELSE 8
      [] OTHER -> 0

\* C9: a read whose byte range [base + index * stride, + lanes * byteSize) is
\* not fully inside the binary payload fails; lanes are never decoded from
\* fewer bytes or from wrapped (negative) offsets.
C9_OutOfBoundsFails ==
    (rpc = "done" /\ ~InsidePayload(bin_data, ReadOffset, ReadSize))
        => rres.outcome # "ok"

(***************************************************************************)
(* JOINTS_0 stored in its two forms.  A payload is laid out from the joint *)
(* slots of each vertex: `jbase` bytes in front, one element per vertex at *)
(* the stride of the descriptor, then WEIGHTS_0.                           *)
(***************************************************************************)
MaxVertices == 2

\* the bytes of one joint slot as stored: one byte, or two, low byte first
StoredLane(comp_type, v) ==
    IF comp_type = 5121 THEN <<v>> ELSE <<v % 256, v \div 256>>

RECURSIVE Concat(_)
Concat(seqs) == IF seqs = << >> THEN << >> ELSE Head(seqs) \o Concat(Tail(seqs))

Padding(n) == [i \in 1..n |-> 170]

\* one element of JOINTS_0: four lanes, padded to the stride
StoredElement(comp_type, stride, lanes) ==
    LET body == Concat([k \in 1..4 |-> StoredLane(comp_type, lanes[k])])
    IN  body \o Padding(stride - Len(body))

\* one element of WEIGHTS_0: lane k holds the float with bytes <<k, v, 0, 63>>
StoredWeights(v) == Concat([k \in 1..4 |-> <<k, v, 0, 63>>])

StoredPayload(jnt_meta, slots) ==
    Padding(jnt_meta.base)
        \o Concat([v \in 1..Len(slots) |->
                     StoredElement(jnt_meta.comp_type, jnt_meta.stride, slots[v])])
        \o Concat([v \in 1..Len(slots) |-> StoredWeights(v)])

\* the joint slots of the vertices: seed, seed + step, ... (mod 256)
SlotValues(seed, step) ==
    [v \in 1..MaxVertices |-> [k \in 1..4 |-> (seed + step * (4 * (v - 1) + (k - 1))) % 256]]

ProbeInit ==
    /\ \E seed \in {0, 1, 200, 252}, step \in {0, 1, 17, 85} :
          logical = SlotValues(seed, step)
    /\ \E base \in {0, 4}, stride \in {0, 16}, ct \in {5121, 5123} :
          rmeta = MetaOf(base, stride, ct, "VEC4")
    /\ bin_data = StoredPayload(rmeta, logical)
    /\ wmeta = MetaOf(rmeta.base + MaxVertices * rmeta.stride, 0, 5126, "VEC4")
    /\ rindex \in 0..(MaxVertices - 1)
    /\ rres = [outcome |-> "none", value |-> << >>]
    /\ rentry = "none"
    /\ rpc = "start"

InitProbe == ProbeInit /\ DIdle /\ GIdle /\ AIdle /\ SIdle /\ VIdle /\ LIdle
SpecProbe == InitProbe /\ [][RNext]_vars

\* the same joint slots stored in the other form, at the same base and the
\* same explicit stride (or the natural one of that form)
OtherForm(meta) ==
    LET ct == IF meta.comp_type = 5121 THEN 5123 ELSE 5121
        explicit == meta.stride # ElemCountTable[meta.acc_type] * CompSizeTable[meta.comp_type]
    IN  MetaOf(meta.base, IF explicit THEN meta.stride ELSE 0, ct, "VEC4")

DecodedOtherForm ==
    LET om == OtherForm(rmeta)
        ow == MetaOf(om.base + MaxVertices * om.stride, 0, 5126, "VEC4")
    IN  decode_influence(StoredPayload(om, logical), om, ow, rindex)

\* the stored bytes of lane k (from 0) at the offsets the claim names
LaneAtClaimedOffset(k) ==
    LET off == rmeta.base + rindex * rmeta.stride
    IN  IF rmeta.comp_type = 5121 THEN bin_data[off + k + 1]
        ELSE bin_data[off + 2 * k + 1] + 256 * bin_data[off + 2 * k + 2]

\* C7: decoding the joints of a vertex gives the four joint slots that were
\* stored, whether JOINTS_0 is stored as unsigned bytes or as little-endian
\* unsigned shorts, so both forms give the same integers; lane k is read at
\* base + vertex*stride + k in the byte form and at base + vertex*stride + 2k
\* in the short form.
C7_SameJointsBothForms ==
    (rpc = "done" /\ rentry = "decode_influence") =>
        /\ rres.outcome = "ok"
        /\ rres.value.jnts = logical[rindex + 1]
        /\ DecodedOtherForm.outcome = "ok"
        /\ DecodedOtherForm.value.jnts = rres.value.jnts
        /\ \A k \in 0..3 : rres.value.jnts[k + 1] = LaneAtClaimedOffset(k)

\* the joints of the last vertex were decoded from the short form, the four
\* slots different, one of them above 127
C7_Witness ==
    /\ rpc = "done"
    /\ rentry = "decode_influence"
    /\ rmeta.comp_type = 5123
    /\ rindex = MaxVertices - 1
    /\ Cardinality({logical[rindex + 1][k] : k \in 1..4}) = 4
    /\ \E k \in 1..4 : logical[rindex + 1][k] > 127
    /\ rres.outcome = "ok"

(***************************************************************************)
(* The joint loops: inspect_detailed.main goes over the joint slots of the *)
(* skin, compare_vrm_ibm.main over the humanoid bones of its table.  A     *)
(* record holds the joint slot, the inverse bind matrix read for it and    *)
(* the node whose world matrix it is multiplied with.                      *)
(***************************************************************************)
JointPreview == 20

\* the keys of bone_map, as sorted() orders them
BoneNames ==
    <<"chest", "head", "hips", "leftFoot", "leftHand", "leftLowerArm",
      "leftLowerLeg", "leftShoulder", "leftUpperArm", "leftUpperLeg", "neck",
      "rightFoot", "rightHand", "rightLowerArm", "rightLowerLeg",
      "rightShoulder", "rightUpperArm", "rightUpperLeg", "spine">>

\* the whole list of joints, in place of its first JointPreview
JointsPreview_All(skin_joints) == skin_joints

\* joints[:20]
JointsPreview(skin_joints) == PySlice(skin_joints, 0, JointPreview)

\* the first i with joints[i] = node_idx, from 0; -1 stands for None
FirstSlotOf(skin_joints, node_idx) ==
    IF \E i \in 1..Len(skin_joints) : skin_joints[i] = node_idx
    THEN (CHOOSE i \in 1..Len(skin_joints) :
             /\ skin_joints[i] = node_idx
             /\ \A k \in 1..(i - 1) : skin_joints[k] # node_idx) - 1
    ELSE -1

Record(ji, ibm, node_idx) == [slot |-> ji, ibm |-> ibm, world |-> node_idx]

EnterInspectDetailed ==
    /\ spc = "start"
    /\ sentry' = "inspect_detailed"
    /\ si' = 0
    /\ spc' = "loop"
    /\ UNCHANGED <<joints, hbones, srecords, sexc>>
    /\ UNCHANGED NotS

\* one turn of: for ji, joint_idx in enumerate(joints[:20])
PreviewJoint ==
    /\ spc = "loop"
    /\ sentry = "inspect_detailed"
    /\ si < Len(JointsPreview(joints))
    /\ LET joint_idx == JointsPreview(joints)[si + 1]
           ibm == read_mat4(bin_data, rmeta, si)
       IN  IF ibm.outcome # "ok"
           THEN /\ sexc' = ibm.outcome
                /\ spc' = "raised"
                /\ UNCHANGED <<si, srecords>>
           ELSE /\ srecords' = Append(srecords, Record(si, ibm.value, joint_idx))
                /\ si' = si + 1
                /\ UNCHANGED <<sexc, spc>>
    /\ UNCHANGED <<joints, hbones, sentry>>
    /\ UNCHANGED NotS

PreviewDone ==
    /\ spc = "loop"
    /\ sentry = "inspect_detailed"
    /\ si >= Len(JointsPreview(joints))
    /\ spc' = "done"
    /\ UNCHANGED <<joints, hbones, si, srecords, sexc, sentry>>
    /\ UNCHANGED NotS

EnterCompareVrmIbm ==
    /\ spc = "start"
    /\ sentry' = "compare_vrm_ibm"
    /\ si' = 0
    /\ spc' = "loop"
    /\ UNCHANGED <<joints, hbones, srecords, sexc>>
    /\ UNCHANGED NotS

\* one turn of: for vrm_name, sl_name in sorted(bone_map.items())
BoneStep ==
    /\ spc = "loop"
    /\ sentry = "compare_vrm_ibm"
    /\ si < Len(BoneNames)
    /\ LET vrm_name == BoneNames[si + 1]
       IN  IF vrm_name \notin DOMAIN hbones
           THEN /\ si' = si + 1
                /\ UNCHANGED <<srecords, sexc, spc>>
           ELSE LET node_idx == hbones[vrm_name]
                    ji == FirstSlotOf(joints, node_idx)
                    ibm == read_mat4_vrm_ibm(bin_data, rmeta.base, rmeta.stride, ji)
                IN  IF ji = -1
                    THEN /\ si' = si + 1
                         /\ UNCHANGED <<srecords, sexc, spc>>
                    ELSE IF ibm.outcome # "ok"
                    THEN /\ sexc' = ibm.outcome
                         /\ spc' = "raised"
                         /\ UNCHANGED <<si, srecords>>
                    ELSE /\ srecords' = Append(srecords, Record(ji, ibm.value, node_idx))
                         /\ si' = si + 1
                         /\ UNCHANGED <<sexc, spc>>
    /\ UNCHANGED <<joints, hbones, sentry>>
    /\ UNCHANGED NotS

BonesDone ==
    /\ spc = "loop"
    /\ sentry = "compare_vrm_ibm"
    /\ si >= Len(BoneNames)
    /\ spc' = "done"
    /\ UNCHANGED <<joints, hbones, si, srecords, sexc, sentry>>
    /\ UNCHANGED NotS

(***************************************************************************)
(* The skins the loops are checked on: up to MaxJoints joint slots in four *)
(* orders (one with a node in two slots), inverse bind matrices for every  *)
(* slot or for all but the last, whose floats tell element and position,   *)
(* and humanoid tables naming some or all of the bones.                    *)
(***************************************************************************)
MaxJoints == 21

JointLengths == {0, 1, 2, JointPreview - 1, JointPreview, MaxJoints}

JointList(n, order) ==
    [s \in 1..n |->
        CASE order = "slot"     -> s - 1
          [] order = "reversed" -> n - s
          [] order = "shifted"  -> (s + 4) % (n + 3)
          [] order = "doubled"  -> (s - 1) \div 2]

\* float f of element e is stored as the bytes <<e, f, 0, 0>>
SkinPayload(cnt) ==
    [i \in 1..(64 * cnt) |->
        CASE (i - 1) % 4 = 0 -> (i - 1) \div 64
          [] (i - 1) % 4 = 1 -> ((i - 1) % 64) \div 4
          [] OTHER -> 0]

BoneTables ==
    { [b \in names |-> CHOOSE k \in 1..Len(BoneNames) : BoneNames[k] = b] :
        names \in { {}, {BoneNames[k] : k \in 1..Len(BoneNames)},
                    {"head", "hips", "spine"},
                    {BoneNames[k] : k \in {x \in 1..Len(BoneNames) : x % 2 = 0}} } }

SkinInit ==
    /\ \E n \in JointLengths, order \in {"slot", "reversed", "shifted", "doubled"} :
          /\ joints = JointList(n, order)
          /\ \E cnt \in {n, Max(n - 1, 0)} : bin_data = SkinPayload(cnt)
    /\ \E table \in BoneTables, spread \in {1, 2} :
          \* a bone either absent or on node spread * (its rank - 1)
          hbones = [b \in DOMAIN table |-> spread * (table[b] - 1)]
    /\ rmeta = MetaOf(0, 0, 5126, "MAT4")
    /\ wmeta = NoMeta
    /\ rindex = 0
    /\ logical = << >>
    /\ rres = [outcome |-> "none", value |-> << >>]
    /\ rentry = "none"
    /\ rpc = "idle"
    /\ si = 0
    /\ srecords = << >>
    /\ sexc = "none"
    /\ sentry = "none"
    /\ spc = "start"

SNext ==
    \/ EnterInspectDetailed
    \/ PreviewJoint
    \/ PreviewDone
    \/ EnterCompareVrmIbm
    \/ BoneStep
    \/ BonesDone

InitSkin == SkinInit /\ DIdle /\ GIdle /\ AIdle /\ VIdle /\ LIdle
SpecSkin == InitSkin /\ [][SNext]_vars

\* inverse bind matrix element e as stored: entry (r, c) is float c*4 + r
StoredElementMatrix(e) ==
    [r \in 1..4 |-> [c \in 1..4 |-> <<e, (c - 1) * 4 + (r - 1), 0, 0>>]]

\* record k (from 1) is the record of joint slot j
RecordOfSlot(k, j) ==
    /\ srecords[k].slot = j
    /\ srecords[k].ibm = StoredElementMatrix(j)
    /\ srecords[k].world = joints[j + 1]

\* C8 as stated: once a joint loop is through, there is exactly one record
\* for every joint slot j of the skin, in slot order, made from inverse bind
\* matrix element j and the world matrix of node joints[j]; no slot is
\* skipped however many joints the skin has.
C8_RecordPerJointSlot ==
    spc = "done" =>
        /\ Len(srecords) = Len(joints)
        /\ \A j \in 0..(Len(joints) - 1) : RecordOfSlot(j + 1, j)

\* the bones of the table that the humanoid names and whose node is a joint
\* of the skin, in the order of the table
RECURSIVE BonesInSkin(_)
BonesInSkin(k) ==
    IF k > Len(BoneNames) THEN << >>
    ELSE IF BoneNames[k] \in DOMAIN hbones
            /\ \E i \in 1..Len(joints) : joints[i] = hbones[BoneNames[k]]
         THEN <<BoneNames[k]>> \o BonesInSkin(k + 1)
         ELSE BonesInSkin(k + 1)

\* C8, amended: inspect_detailed makes one record for each of the first
\* JointPreview joint slots (all of them when the skin has no more), in slot
\* order, record j from inverse bind matrix element j and the world matrix
\* of node joints[j]; compare_vrm_ibm makes one record for each bone of its
\* table that the humanoid names and whose node is a joint, in the sorted
\* order of the table, from the element of the first slot holding that node
\* and the world matrix of that node.  A read that raises ends the loop
\* with the records made so far.
C8_RecordPerPreviewedSlot ==
    /\ (spc = "done" /\ sentry = "inspect_detailed") =>
          /\ Len(srecords) = Min(Len(joints), JointPreview)
          /\ \A j \in 0..(Len(srecords) - 1) : RecordOfSlot(j + 1, j)
    /\ (spc = "done" /\ sentry = "compare_vrm_ibm") =>
          /\ Len(srecords) = Len(BonesInSkin(1))
          /\ \A k \in 1..Len(srecords) :
                LET node_idx == hbones[BonesInSkin(1)[k]]
                IN  /\ srecords[k].world = node_idx
                    /\ joints[srecords[k].slot + 1] = node_idx
                    /\ \A i \in 1..srecords[k].slot : joints[i] # node_idx
                    /\ srecords[k].ibm = StoredElementMatrix(srecords[k].slot)
    /\ spc = "raised" =>
          \A k \in 1..Len(srecords) :
              srecords[k].ibm = StoredElementMatrix(srecords[k].slot)

\* inspect_detailed went through a skin of more than JointPreview joints and
\* made JointPreview records
C8_Witness ==
    /\ spc = "done"
    /\ sentry = "inspect_detailed"
    /\ Len(joints) > JointPreview
    /\ Len(srecords) = JointPreview

(***************************************************************************)
(* The scan for the highest vertex.  The floats of POSITION are compared,  *)
(* so the four bytes of a float are given their value: sign, exponent and  *)
(* fraction of IEEE 754 single precision, for the whole numbers below 2^24 *)
(* that the payloads hold.                                                 *)
(***************************************************************************)
RECURSIVE Pow2(_)
Pow2(k) == IF k = 0 THEN 1 ELSE 2 * Pow2(k - 1)

\* the value of the float whose bytes are b, least significant first
F32Value(b) ==
    LET negative == b[4] >= 128
        exponent == (b[4] % 128) * 2 + b[3] \div 128
        fraction == (b[3] % 128) * 65536 + b[2] * 256 + b[1]
        magnitude == IF exponent = 0 THEN 0
                     ELSE IF exponent >= 150
                     THEN (8388608 + fraction) * Pow2(exponent - 150)
                     ELSE (8388608 + fraction) \div Pow2(150 - exponent)
    IN  IF negative THEN -magnitude ELSE magnitude

\* the position of the highest set bit of n > 0
RECURSIVE Log2(_)
Log2(n) == IF n <= 1 THEN 0 ELSE 1 + Log2(n \div 2)

\* the bytes of the float that holds the whole number v, |v| < 2^24
F32Bytes(v) ==
    LET a == IF v < 0 THEN -v ELSE v
        e == Log2(a)
        fraction == (a - Pow2(e)) * Pow2(23 - e)
        exponent == e + 127
        top == (IF v < 0 THEN 128 ELSE 0) + exponent \div 2
    IN  IF v = 0 THEN <<0, 0, 0, 0>>
        ELSE <<fraction % 256, (fraction \div 256) % 256,
               (exponent % 2) * 128 + fraction \div 65536, top>>

ScanCap == 50000

\* range(pos_meta['count']) and range(min(pos_meta['count'], 50000))
ScanLength(entry, count) ==
    IF entry = "inspect_detailed" THEN Min(count, ScanCap) ELSE count

\* max_y = -999; max_y_idx = 0 (and min_y = 999)
EnterScanCompareIbm ==
    /\ vpc = "start"
    /\ ventry' = "compare_ibm"
    /\ max_y' = -999
    /\ max_y_idx' = 0
    /\ vidx' = 0
    /\ vpc' = "loop"
    /\ UNCHANGED <<min_y, vexc>>
    /\ UNCHANGED NotV

EnterScanInspectDetailed ==
    /\ vpc = "start"
    /\ ventry' = "inspect_detailed"
    /\ max_y' = -999
    /\ min_y' = 999
    /\ max_y_idx' = 0
    /\ vidx' = 0
    /\ vpc' = "loop"
    /\ UNCHANGED vexc
    /\ UNCHANGED NotV

\* one turn of: for vi in range(...): pos = read_vec3(...); if pos[1] > max_y
ScanVertex ==
    /\ vpc = "loop"
    /\ vidx < ScanLength(ventry, rmeta.count)
    /\ LET pos == read_vec3(bin_data, rmeta, vidx)
       IN  IF pos.outcome # "ok"
           THEN /\ vexc' = pos.outcome
                /\ vpc' = "raised"
                /\ UNCHANGED <<max_y, min_y, max_y_idx, vidx>>
           ELSE LET y == F32Value(pos.value[2])
                IN  /\ IF y > max_y
                       THEN max_y' = y /\ max_y_idx' = vidx
                       ELSE UNCHANGED <<max_y, max_y_idx>>
                    /\ IF ventry = "inspect_detailed" /\ y < min_y
                       THEN min_y' = y
                       ELSE UNCHANGED min_y
                    /\ vidx' = vidx + 1
                    /\ UNCHANGED <<vexc, vpc>>
    /\ UNCHANGED ventry
    /\ UNCHANGED NotV

ScanDone ==
    /\ vpc = "loop"
    /\ vidx >= ScanLength(ventry, rmeta.count)
    /\ vpc' = "done"
    /\ UNCHANGED <<max_y, min_y, max_y_idx, vidx, vexc, ventry>>
    /\ UNCHANGED NotV

(***************************************************************************)
(* The meshes scanned: up to MaxCount vertices, the Y of each one of a few *)
(* heights on both sides of the starting values of the scan.               *)
(***************************************************************************)
MaxCount == 3

Heights == {-2000, -1000, -999, 0, 5, 1000}

\* the payload of POSITION: vertex v (from 1) is at (v, ys[v], 7)
PositionPayload(ys) ==
    Concat([v \in 1..Len(ys) |-> F32Bytes(v) \o F32Bytes(ys[v]) \o F32Bytes(7)])

HeightLists(n) == [1..n -> Heights]

ScanInit ==
    /\ \E n \in 0..MaxCount : \E ys \in HeightLists(n) :
          /\ bin_data = PositionPayload(ys)
          /\ rmeta = [MetaOf(0, 0, 5126, "VEC3") EXCEPT !.count = n]
    /\ wmeta = NoMeta
    /\ rindex = 0
    /\ logical = << >>
    /\ rres = [outcome |-> "none", value |-> << >>]
    /\ rentry = "none"
    /\ rpc = "idle"
    /\ max_y = 0
    /\ min_y = 0
    /\ max_y_idx = 0
    /\ vidx = 0
    /\ vexc = "none"
    /\ ventry = "none"
    /\ vpc = "start"

VNext ==
    \/ EnterScanCompareIbm
    \/ EnterScanInspectDetailed
    \/ ScanVertex
    \/ ScanDone

InitScan == ScanInit /\ DIdle /\ GIdle /\ AIdle /\ SIdle /\ LIdle
SpecScan == InitScan /\ [][VNext]_vars

\* the Y of vertex i (from 0) as the payload holds it
StoredY(i) == F32Value(SubSeq(bin_data, 12 * i + 5, 12 * i + 8))

\* C11: when the scan is through it has looked at every vertex
\* 0..count-1, and the index it gives is one of them whose Y is the highest
\* of all, whatever the count and the coordinates.
C11_SelectsMaximum ==
    vpc = "done" =>
        /\ vidx = rmeta.count
        /\ rmeta.count > 0 =>
              /\ max_y_idx \in 0..(rmeta.count - 1)
              /\ \A i \in 0..(rmeta.count - 1) : StoredY(i) <= StoredY(max_y_idx)

(***************************************************************************)
(* The local matrix of a node on its own: nodes with every combination of  *)
(* the four transform fields, rotations with components in QuatRange (unit *)
(* and not), scales equal and different along the axes.                    *)
(***************************************************************************)
MaxQuat == 1

QuatRange == -1..MaxQuat

LocalMatrices ==
    { << 1, 2, 0, 0,  0, 1, 3, 0,  4, 0, 1, 0,  5, 6, 7, 1 >>,
      << 1, 0, 0, 0,  0, 1, 0, 0,  0, 0, 1, 0,  0, 0, 0, 1 >> }
LocalTranslations == { << 0, 0, 0 >>, << 1, 2, 3 >> }
LocalScales == { << 1, 1, 1 >>, << 2, 3, 5 >>, << -1, 2, 0 >> }

LocalInit ==
    /\ \E has \in SUBSET {"matrix", "translation", "rotation", "scale"} :
         \E mx \in LocalMatrices, t \in LocalTranslations, sc \in LocalScales :
            \E x \in QuatRange, y \in QuatRange, z \in QuatRange, w \in QuatRange :
                lnode = [children |-> << >>, has |-> has, matrix |-> mx,
                         translation |-> t, rotation |-> << x, y, z, w >>,
                         scale |-> sc]
    /\ llocal = None
    /\ lentry = "none"
    /\ lpc = "start"

LocalCompareIbm ==
    /\ lpc = "start"
    /\ llocal' = node_to_local_matrix(lnode)
    /\ lentry' = "compare_ibm"
    /\ lpc' = "done"
    /\ UNCHANGED lnode
    /\ UNCHANGED NotL

LocalInspectDetailed ==
    /\ lpc = "start"
    /\ llocal' = node_to_local_matrix(lnode)
    /\ lentry' = "inspect_detailed"
    /\ lpc' = "done"
    /\ UNCHANGED lnode
    /\ UNCHANGED NotL

LocalCompareVrmIbm ==
    /\ lpc = "start"
    /\ llocal' = node_to_local_matrix(lnode)
    /\ lentry' = "compare_vrm_ibm"
    /\ lpc' = "done"
    /\ UNCHANGED lnode
    /\ UNCHANGED NotL

LNext ==
    \/ LocalCompareIbm
    \/ LocalInspectDetailed
    \/ LocalCompareVrmIbm

InitLocal == LocalInit /\ DIdle /\ GIdle /\ AIdle /\ RIdle /\ SIdle /\ VIdle
SpecLocal == InitLocal /\ [][LNext]_vars

Identity4 == << <<1, 0, 0, 0>>, <<0, 1, 0, 0>>, <<0, 0, 1, 0>>, <<0, 0, 0, 1>> >>

\* the fields of the node, an absent one at its default
FieldOr(key, default) == IF key \in lnode.has THEN lnode[key] ELSE default
TheTranslation == FieldOr("translation", << 0, 0, 0 >>)
TheRotation == FieldOr("rotation", << 0, 0, 0, 1 >>)
TheScale == FieldOr("scale", << 1, 1, 1 >>)

\* the rotation matrix of the quaternion q = (x, y, z, w), as the formula
\* gives it from the components as they are
QuatRotation(q) ==
    LET x == q[1]
        y == q[2]
        z == q[3]
        w == q[4]
    IN  << << 1 - 2 * (y * y + z * z), 2 * (x * y - z * w), 2 * (x * z + y * w) >>,
           << 2 * (x * y + z * w), 1 - 2 * (x * x + z * z), 2 * (y * z - x * w) >>,
           << 2 * (x * z - y * w), 2 * (y * z + x * w), 1 - 2 * (x * x + y * y) >> >>

\* the 4x4 matrices of a translation, a rotation and a scale
TranslationMatrix(t) ==
    << <<1, 0, 0, t[1]>>, <<0, 1, 0, t[2]>>, <<0, 0, 1, t[3]>>, <<0, 0, 0, 1>> >>
RotationMatrix(q) ==
    [r \in 1..4 |-> [c \in 1..4 |->
        IF r <= 3 /\ c <= 3 THEN QuatRotation(q)[r][c] ELSE IF r = c THEN 1 ELSE 0]]
ScaleMatrix(sc) ==
    << <<sc[1], 0, 0, 0>>, <<0, sc[2], 0, 0>>, <<0, 0, sc[3], 0>>, <<0, 0, 0, 1>> >>

\* C16: the local matrix of a node that holds `matrix` is that field read
\* column by column, m[row][col] = stored[col*4 + row], whatever translation,
\* rotation and scale the node also holds; the local matrix of any other
\* node is translation x rotation x scale with an absent field at
\* [0,0,0], [0,0,0,1], [1,1,1], so a node with none of the fields has the
\* identity.
C16_MatrixOverridesTrs ==
    lpc = "done" =>
        /\ "matrix" \in lnode.has =>
              \A row \in 0..3, col \in 0..3 :
                  llocal[row + 1][col + 1] = lnode.matrix[col * 4 + row + 1]
        /\ "matrix" \notin lnode.has =>
              llocal = mat4_multiply(mat4_multiply(TranslationMatrix(TheTranslation),
                                                   RotationMatrix(TheRotation)),
                                     ScaleMatrix(TheScale))
        /\ lnode.has = {} => llocal = Identity4

\* a node that holds a matrix that is not symmetric next to a translation, a
\* rotation and a scale that are not the defaults has been given its matrix
C16_Witness ==
    /\ lpc = "done"
    /\ lnode.has = {"matrix", "translation", "rotation", "scale"}
    /\ lnode.matrix[2] # lnode.matrix[5]
    /\ lnode.translation # << 0, 0, 0 >>
    /\ lnode.rotation # << 0, 0, 0, 1 >>
    /\ lnode.scale # << 1, 1, 1 >>
    /\ llocal[1][4] = lnode.matrix[13]

\* C17 as stated: the 3x3 block of the matrix composed from a rotation and
\* a scale is the rotation matrix of the quaternion with each row r scaled
\* by scale[r].
C17_RowsScaled ==
    (lpc = "done" /\ "matrix" \notin lnode.has) =>
        \A r \in 1..3, c \in 1..3 :
            llocal[r][c] = QuatRotation(TheRotation)[r][c] * TheScale[r]

\* C17, amended: the 3x3 block is the rotation matrix of the quaternion,
\* computed from its components as they are (not normalized), with each
\* column c scaled by scale[c]; for (0,0,0,1) and scale [1,1,1] it is the
\* 3x3 identity.
C17_ColumnsScaled ==
    (lpc = "done" /\ "matrix" \notin lnode.has) =>
        /\ \A r \in 1..3, c \in 1..3 :
              llocal[r][c] = QuatRotation(TheRotation)[r][c] * TheScale[c]
        /\ (TheRotation = << 0, 0, 0, 1 >> /\ TheScale = << 1, 1, 1 >>) =>
              \A r \in 1..3, c \in 1..3 : llocal[r][c] = Identity4[r][c]

\* a quaternion that is not of unit length was composed with a scale that
\* differs along the axes, and an entry off the diagonal tells rows from
\* columns
C17_Witness ==
    /\ lpc = "done"
    /\ lnode.has = {"rotation", "scale"}
    /\ lnode.rotation[1] * lnode.rotation[1] + lnode.rotation[2] * lnode.rotation[2]
         + lnode.rotation[3] * lnode.rotation[3] + lnode.rotation[4] * lnode.rotation[4] > 1
    /\ lnode.scale = << 2, 3, 5 >>
    /\ llocal[1][2] # 0
    /\ llocal[1][2] # QuatRotation(lnode.rotation)[1][2] * lnode.scale[1]

(***************************************************************************)
(* The files handed to the readers: a container written field by field,    *)
(* with a right or a wrong signature, right or overstated lengths, with or *)
(* without a second chunk, and cut short at any byte.                      *)
(***************************************************************************)
MaxBinLen == 4       \* the longest binary payload written
OverDeclare == 4     \* by how much an overstated length overstates

GlbMagic == << 103, 108, 84, 70 >>          \* "glTF"
OtherMagic == << 82, 73, 70, 70 >>          \* "RIFF"
JsonDocs == { << 123, 125, 32, 32 >>, << 123, 32, 32, 125 >> }
BinPayload(n) == [i \in 1..n |-> (16 * i + 1) % 256]

JsonChunk(declared, doc) == PackU32(declared) \o PackU32(1313821514) \o doc
BinChunk(declared, payload) == PackU32(declared) \o PackU32(5130562) \o payload
Prefix(b, n) == SubSeq(b, 1, n)

Containers ==
    { magic \o PackU32(2) \o PackU32(20 + Len(doc) + Len(rest) + dt)
            \o JsonChunk(Len(doc) + dj, doc) \o rest :
        magic \in {GlbMagic, OtherMagic}, doc \in JsonDocs,
        dj \in {0, OverDeclare}, dt \in {0, OverDeclare},
        rest \in { << >> } \cup
                 { BinChunk(n + db, BinPayload(n)) :
                     n \in {0, MaxBinLen}, db \in {0, OverDeclare} } }

Files == UNION { { Prefix(c, n) : n \in 0..Len(c) } : c \in Containers }

\* the fields a file declares, for the files long enough to hold them
DeclaredTotal(f) == UnpackU32(SubSeq(f, 9, 12))
DeclaredJsonLen(f) == UnpackU32(SubSeq(f, 13, 16))
HasSecondHeader(f) == Len(f) >= 20 + DeclaredJsonLen(f) + 8
DeclaredBinLen(f) ==
    UnpackU32(SubSeq(f, 20 + DeclaredJsonLen(f) + 1, 20 + DeclaredJsonLen(f) + 4))

\* a whole container with one chunk only: the signature, the total length
\* and the chunk length are right and nothing follows the JSON chunk
WellFormedNoBin(f) ==
    /\ Len(f) >= 20
    /\ SubSeq(f, 1, 4) = GlbMagic
    /\ DeclaredTotal(f) = Len(f)
    /\ DeclaredJsonLen(f) = Len(f) - 20
    /\ JsonLoadsOk(SubSeq(f, 21, Len(f)))

\* a chunk header declares more bytes than are left, or the header's total
\* length exceeds the size of the input
Truncated(f) ==
    /\ Len(f) >= 20
    /\ \/ DeclaredTotal(f) > Len(f)
       \/ DeclaredJsonLen(f) > Len(f) - 20
       \/ /\ HasSecondHeader(f)
          /\ DeclaredBinLen(f) > Len(f) - (20 + DeclaredJsonLen(f) + 8)

BinReaders == {"compare_ibm", "inspect_detailed", "compare_vrm_ibm"}

DInit ==
    /\ file \in Files
    /\ dpc = "start"
    /\ dentry = "none"
    /\ dres = Raised("none", 0, FALSE)

\* compare_ibm.main: read_glb(path)
ReadGlbCompareIbm ==
    /\ dpc = "start"
    /\ dpc' = "done"
    /\ dentry' = "compare_ibm"
    /\ dres' = read_glb(file)
    /\ UNCHANGED file
    /\ UNCHANGED NotD

\* inspect_detailed.main: read_glb(path)
ReadGlbInspectDetailed ==
    /\ dpc = "start"
    /\ dpc' = "done"
    /\ dentry' = "inspect_detailed"
    /\ dres' = read_glb(file)
    /\ UNCHANGED file
    /\ UNCHANGED NotD

\* compare_vrm_ibm.main: read_glb(path)
ReadGlbCompareVrmIbm ==
    /\ dpc = "start"
    /\ dpc' = "done"
    /\ dentry' = "compare_vrm_ibm"
    /\ dres' = read_glb_vrm_ibm(file)
    /\ UNCHANGED file
    /\ UNCHANGED NotD

\* inspect_output.main and inspect_vrm.main: read_glb_json(path)
ReadGlbJson ==
    /\ dpc = "start"
    /\ dpc' = "done"
    /\ dentry' = "read_glb_json"
    /\ dres' = read_glb_json(file)
    /\ UNCHANGED file
    /\ UNCHANGED NotD

DNext ==
    \/ ReadGlbCompareIbm
    \/ ReadGlbInspectDetailed
    \/ ReadGlbCompareVrmIbm
    \/ ReadGlbJson

InitDecode == DInit /\ GIdle /\ AIdle /\ RIdle /\ SIdle /\ VIdle /\ LIdle
SpecDecode == InitDecode /\ [][DNext]_vars

\* C2: whenever the first four bytes of the input differ from the container
\* signature, the reader fails (no container is returned).
C2_BadMagicFails ==
    (dpc = "done" /\ SubSeq(file, 1, Min(4, Len(file))) # GlbMagic)
        => dres.outcome # "ok"

\* C3: whenever a chunk header declares more bytes than remain, or the total
\* length exceeds the input size, the reader fails; a returned chunk is never
\* shorter than its declared length.
C3_TruncatedFails ==
    (dpc = "done" /\ dentry \in BinReaders /\ Truncated(file))
        => dres.outcome # "ok"

\* C4: a second chunk is read only if fewer than totalLength bytes have been
\* consumed, and a container with no second chunk decodes to an empty binary
\* payload, in every reader that returns a binary payload.
C4_SecondChunkOptional ==
    (dpc = "done" /\ dentry \in BinReaders /\ Len(file) >= 20) =>
        /\ dres.read2 => dres.tell < DeclaredTotal(file)
        /\ WellFormedNoBin(file) => (dres.outcome = "ok" /\ dres.bin = << >>)

====
